---- MODULE Spec2Model ----
(***************************************************************************)
(* A model of package fbits (src/floatbits.go): bit-level operations on    *)
(* IEEE 754 binary64 values.                                               *)
(*                                                                         *)
(* A uint64 (and the bit pattern of a float64) is a tuple of four 16-bit   *)
(* limbs, least significant first, so that every operation keeps the full  *)
(* 64-bit width of the code.  Unbounded naturals (the exact values that    *)
(* floating-point operations round) are limb sequences of any length       *)
(* without leading zero limbs; <<>> is zero.                               *)
(***************************************************************************)
EXTENDS Integers, Sequences, FiniteSets, TLC

Base == 2^16

\* ------------------------------------------------------------------------
\* Exact natural-number arithmetic on limb sequences.
\* ------------------------------------------------------------------------

Limb(a, i) ==
    IF i >= 1 /\ i <= Len(a) THEN a[i] ELSE 0

RECURSIVE NNorm(_)

NNorm(a) ==
    IF a = <<>> THEN a
    ELSE IF a[Len(a)] = 0 THEN NNorm(SubSeq(a, 1, Len(a) - 1))
    ELSE a

NatOf(n) ==
    IF n = 0 THEN <<>> ELSE IF n < Base THEN <<n>> ELSE <<n % Base, n \div Base>>

RECURSIVE CmpFrom(_, _, _)

CmpFrom(a, b, i) ==
    IF i = 0 THEN 0
    ELSE IF a[i] > b[i] THEN 1
    ELSE IF a[i] < b[i] THEN -1
    ELSE CmpFrom(a, b, i - 1)

NCmp(a, b) ==
    IF Len(a) > Len(b) THEN 1
    ELSE IF Len(a) < Len(b) THEN -1
    ELSE CmpFrom(a, b, Len(a))

RECURSIVE AddFrom(_, _, _, _)

AddFrom(a, b, i, c) ==
    IF i > Len(a) /\ i > Len(b)
    THEN (IF c = 0 THEN <<>> ELSE <<c>>)
    ELSE LET s == Limb(a, i) + Limb(b, i) + c
         IN  <<s % Base>> \o AddFrom(a, b, i + 1, s \div Base)

NAdd(a, b) ==
    AddFrom(a, b, 1, 0)

RECURSIVE SubFrom(_, _, _, _)

SubFrom(a, b, i, c) ==
    IF i > Len(a) THEN <<>>
    ELSE LET s == a[i] - Limb(b, i) - c
         IN  IF s < 0 THEN <<s + Base>> \o SubFrom(a, b, i + 1, 1)
             ELSE <<s>> \o SubFrom(a, b, i + 1, 0)

\* a - b for a >= b
NSub(a, b) ==
    NNorm(SubFrom(a, b, 1, 0))

NShl(a, s) ==
    LET q == s \div 16
        r == s % 16
        p == 2^r
        d == 2^(16 - r)
    IN  NNorm([i \in 1..(Len(a) + q + 1) |->
                 IF i <= q THEN 0
                 ELSE (Limb(a, i - q) % d) * p + (Limb(a, i - q - 1) \div d)])

NShr(a, s) ==
    LET q == s \div 16
        r == s % 16
        p == 2^r
        d == 2^(16 - r)
    IN  IF Len(a) <= q THEN <<>>
        ELSE NNorm([i \in 1..(Len(a) - q) |->
                      (a[i + q] \div p) + (Limb(a, i + q + 1) % p) * d])

\* a mod 2^s
NLow(a, s) ==
    LET q == s \div 16
        r == s % 16
    IN  IF Len(a) <= q THEN a
        ELSE NNorm([i \in 1..(q + 1) |-> IF i <= q THEN a[i] ELSE a[i] % (2^r)])

RECURSIVE BitLen16(_)

BitLen16(v) ==
    IF v = 0 THEN 0 ELSE 1 + BitLen16(v \div 2)

NBitLen(a) ==
    IF a = <<>> THEN 0 ELSE 16 * (Len(a) - 1) + BitLen16(a[Len(a)])

NOdd(a) ==
    a # <<>> /\ a[1] % 2 = 1

RECURSIVE MulSmallFrom(_, _, _, _)
\* a * k for a factor k < 2^8
MulSmallFrom(a, k, i, c) ==
    IF i > Len(a) THEN (IF c = 0 THEN <<>> ELSE <<c>>)
    ELSE LET s == a[i] * k + c
         IN  <<s % Base>> \o MulSmallFrom(a, k, i + 1, s \div Base)

RECURSIVE MulFrom(_, _, _)

MulFrom(a, b, j) ==
    IF j > Len(b) THEN <<>>
    ELSE LET lo == MulSmallFrom(a, b[j] % 256, 1, 0)
             hi == MulSmallFrom(a, b[j] \div 256, 1, 0)
             row == NAdd(lo, NShl(hi, 8))
         IN  NAdd(NShl(row, 16 * (j - 1)), MulFrom(a, b, j + 1))

NMul(a, b) ==
    NNorm(MulFrom(a, b, 1))

\* ------------------------------------------------------------------------
\* uint64 words: four limbs, arithmetic modulo 2^64.
\* ------------------------------------------------------------------------

\* The word written as four hexadecimal groups, most significant first.
W(h3, h2, h1, h0) ==
    <<h0, h1, h2, h3>>

ToWord(n) ==
    <<Limb(n, 1), Limb(n, 2), Limb(n, 3), Limb(n, 4)>>

ToNat(w) ==
    NNorm(w)

Zero == W(0, 0, 0, 0)

One == W(0, 0, 0, 1)

signbit == W(\H8000, 0, 0, 0)

posInf == W(\H7ff0, 0, 0, 0)

maxUint64 == W(\Hffff, \Hffff, \Hffff, \Hffff)

\* uint64 a + b
WAdd(a, b) ==
    ToWord(NAdd(ToNat(a), ToNat(b)))

\* uint64 a - b
WSub(a, b) ==
    IF NCmp(ToNat(a), ToNat(b)) >= 0
    THEN ToWord(NSub(ToNat(a), ToNat(b)))
    ELSE ToWord(NSub(NAdd(NShl(<<1>>, 64), ToNat(a)), ToNat(b)))

WLess(a, b) ==
    NCmp(ToNat(a), ToNat(b)) < 0

WShr(a, s) ==
    ToWord(NShr(ToNat(a), s))

WShl(a, s) ==
    ToWord(NShl(ToNat(a), s))

RECURSIVE Xor16(_, _)

Xor16(a, b) ==
    IF a = 0 THEN b
    ELSE IF b = 0 THEN a
    ELSE ((a + b) % 2) + 2 * Xor16(a \div 2, b \div 2)

RECURSIVE And16(_, _)

And16(a, b) ==
    IF a = 0 \/ b = 0 THEN 0
    ELSE ((a % 2) * (b % 2)) + 2 * And16(a \div 2, b \div 2)

\* a ^ b
WXor(a, b) ==
    <<Xor16(a[1], b[1]), Xor16(a[2], b[2]), Xor16(a[3], b[3]), Xor16(a[4], b[4])>>

\* a & b
WAnd(a, b) ==
    <<And16(a[1], b[1]), And16(a[2], b[2]), And16(a[3], b[3]), And16(a[4], b[4])>>

\* a &^ b
WAndNot(a, b) ==
    <<a[1] - And16(a[1], b[1]), a[2] - And16(a[2], b[2]),
      a[3] - And16(a[3], b[3]), a[4] - And16(a[4], b[4])>>

\* ------------------------------------------------------------------------
\* IEEE 754 binary64 arithmetic on bit patterns (round to nearest, ties to
\* even), as the Go float64 operators compute it.
\* ------------------------------------------------------------------------

\* Fields of a bit pattern: sign (0 or 1), biased exponent (0..2047),
\* 52-bit fraction, and the magnitude (the pattern without its sign).
SignOf(w) ==
    w[4] \div 32768

ExpOf(w) ==
    (w[4] % 32768) \div 16

FracOf(w) ==
    NNorm(<<w[1], w[2], w[3], w[4] % 16>>)

MagOf(w) ==
    <<w[1], w[2], w[3], w[4] % 32768>>

WithSign(s, m) ==
    <<m[1], m[2], m[3], m[4] + 32768 * s>>

FIsNaN(w) ==
    WLess(posInf, MagOf(w))

FIsInf(w) ==
    MagOf(w) = posInf

FIsZero(w) ==
    MagOf(w) = Zero

\* A finite value is Sig * 2^Exp2 with an integer significand.
SigOf(w) ==
    IF ExpOf(w) = 0 THEN FracOf(w) ELSE NAdd(FracOf(w), NShl(<<1>>, 52))

Exp2Of(w) ==
    (IF ExpOf(w) = 0 THEN 1 ELSE ExpOf(w)) - 1075

\* The float64 nearest to (-1)^s * m * 2^e, ties to even; overflow gives Inf.
Round(s, m, e) ==
    IF m = <<>> THEN WithSign(s, Zero)
    ELSE
      LET len == NBitLen(m)
          e2 == IF e + len - 53 > -1074 THEN e + len - 53 ELSE -1074
          d == e2 - e
          q0 == IF d <= 0 THEN NShl(m, -d) ELSE NShr(m, d)
          rem == IF d <= 0 THEN <<>> ELSE NLow(m, d)
          half == IF d <= 0 THEN <<1>> ELSE NShl(<<1>>, d - 1)
          c == NCmp(rem, half)
          up == c > 0 \/ (c = 0 /\ NOdd(q0))
          q == IF up THEN NAdd(q0, <<1>>) ELSE q0
          mag == NAdd(NShl(NatOf(e2 + 1074), 52), q)
      IN  IF NCmp(mag, ToNat(posInf)) >= 0 THEN WithSign(s, posInf)
          ELSE WithSign(s, ToWord(mag))

\* What the hardware makes of NaN is not fixed by the language: "quiet"
\* propagates the first NaN operand with its quiet bit set and produces the
\* negative default NaN for an invalid operation (amd64); "canonical"
\* always produces the positive default NaN (riscv64).
NaNModes == {"quiet", "canonical"}

QuietBit == W(\H0008, 0, 0, 0)

DefaultNaN == W(\H7ff8, 0, 0, 0)

NaNOf(a, b, mode) ==
    IF mode = "canonical" THEN DefaultNaN
    ELSE IF FIsNaN(a) THEN WAdd(WAndNot(a, QuietBit), QuietBit)
    ELSE IF FIsNaN(b) THEN WAdd(WAndNot(b, QuietBit), QuietBit)
    ELSE WithSign(1, DefaultNaN)

\* a * b
FMul(a, b, mode) ==
    LET s == (SignOf(a) + SignOf(b)) % 2
    IN  IF FIsNaN(a) \/ FIsNaN(b) THEN NaNOf(a, b, mode)
        ELSE IF FIsInf(a) \/ FIsInf(b)
             THEN (IF FIsZero(a) \/ FIsZero(b) THEN NaNOf(a, b, mode)
                   ELSE WithSign(s, posInf))
        ELSE Round(s, NMul(SigOf(a), SigOf(b)), Exp2Of(a) + Exp2Of(b))

\* The exact sum of two signed values m1 * 2^e and m2 * 2^e as <<sign, m>>;
\* an exact zero sum is +0 unless both terms are negative.
SignedSum(s1, m1, s2, m2) ==
    IF s1 = s2 THEN <<s1, NAdd(m1, m2)>>
    ELSE LET c == NCmp(m1, m2)
         IN  IF c = 0 THEN <<0, <<>>>>
             ELSE IF c > 0 THEN <<s1, NSub(m1, m2)>>
             ELSE <<s2, NSub(m2, m1)>>

\* The rounded sum of the finite values (-1)^s1 * m1 * 2^e1 and
\* (-1)^s2 * m2 * 2^e2.  A term more than 128 binary places below the other's
\* unit is replaced by a sticky unit 128 places down: it is too small to
\* reach a rounding boundary of the sum, and only its sign matters.
SumRound(s1, m1, e1, s2, m2, e2) ==
    IF m1 = <<>> /\ m2 = <<>> THEN WithSign(IF s1 = 1 /\ s2 = 1 THEN 1 ELSE 0, Zero)
    ELSE IF m1 = <<>> THEN Round(s2, m2, e2)
    ELSE IF m2 = <<>> THEN Round(s1, m1, e1)
    ELSE
      LET hi1 == e1 + NBitLen(m1)
          hi2 == e2 + NBitLen(m2)
          big1 == e1 >= e2
          eb == IF big1 THEN e1 ELSE e2
          el == IF big1 THEN e2 ELSE e1
          mb == IF big1 THEN m1 ELSE m2
          ml == IF big1 THEN m2 ELSE m1
          sb == IF big1 THEN s1 ELSE s2
          sl == IF big1 THEN s2 ELSE s1
          hil == IF big1 THEN hi2 ELSE hi1
          far == hil < eb - 128
          e == IF far THEN eb - 128 ELSE el
          xb == NShl(mb, eb - e)
          xl == IF far THEN <<1>> ELSE ml
          r == SignedSum(sb, xb, sl, xl)
      IN  Round(r[1], r[2], e)

\* a + b
FAdd(a, b, mode) ==
    IF FIsNaN(a) \/ FIsNaN(b) THEN NaNOf(a, b, mode)
    ELSE IF FIsInf(a) /\ FIsInf(b)
         THEN (IF SignOf(a) = SignOf(b) THEN a ELSE NaNOf(a, b, mode))
    ELSE IF FIsInf(a) THEN a
    ELSE IF FIsInf(b) THEN b
    ELSE SumRound(SignOf(a), SigOf(a), Exp2Of(a), SignOf(b), SigOf(b), Exp2Of(b))

\* a * b + c with a single rounding (a fused multiply-add)
FMA(a, b, c, mode) ==
    LET s == (SignOf(a) + SignOf(b)) % 2
    IN  IF FIsNaN(a) \/ FIsNaN(b) \/ FIsNaN(c)
        THEN (IF FIsNaN(a) \/ FIsNaN(b) THEN NaNOf(a, b, mode) ELSE NaNOf(c, c, mode))
        ELSE IF FIsInf(a) \/ FIsInf(b)
             THEN (IF FIsZero(a) \/ FIsZero(b) THEN NaNOf(a, b, mode)
                   ELSE IF FIsInf(c) /\ SignOf(c) # s THEN NaNOf(a, b, mode)
                   ELSE WithSign(s, posInf))
        ELSE IF FIsInf(c) THEN c
        ELSE SumRound(s, NMul(SigOf(a), SigOf(b)), Exp2Of(a) + Exp2Of(b),
                      SignOf(c), SigOf(c), Exp2Of(c))

\* a == b and a != b on float64 values
FEq(a, b) ==
    /\ ~FIsNaN(a)
    /\ ~FIsNaN(b)
    /\ (a = b \/ (FIsZero(a) /\ FIsZero(b)))

FNe(a, b) ==
    ~FEq(a, b)

\* The build and the hardware the program runs on: how NaN results are made,
\* and whether the compiler fuses x*y + z into one operation (the Go
\* specification allows it; arm64, ppc64, s390x and riscv64 builds do).
Platforms == [nan : NaNModes, fma : BOOLEAN]

\* ------------------------------------------------------------------------
\* The package's functions.  A float64 is its bit pattern: math.Float64bits
\* and math.Float64frombits are the identity on patterns.
\* ------------------------------------------------------------------------

\* int64(u): sign and absolute value of the two's complement reading
Int64(u) ==
    [neg |-> ~WLess(u, signbit),
     abs |-> IF WLess(u, signbit) THEN u ELSE WSub(Zero, u)]

\* UlpsBetween without `n &^= signbit`
UlpsBetween_KeepSign(a, b) ==
    LET signdiff == ~WLess(WXor(a, b), signbit)
        k == WAndNot(a, signbit)
        n == b
    IN  IF WLess(posInf, k) \/ WLess(posInf, n) THEN maxUint64
        ELSE IF signdiff THEN WAdd(n, k)
        ELSE IF WLess(k, n) THEN WSub(n, k)
        ELSE WSub(k, n)

\* UlpsBetween with `k > posInf && n > posInf`
UlpsBetween_NaNBoth(a, b) ==
    LET signdiff == ~WLess(WXor(a, b), signbit)
        k == WAndNot(a, signbit)
        n == WAndNot(b, signbit)
    IN  IF WLess(posInf, k) /\ WLess(posInf, n) THEN maxUint64
        ELSE IF signdiff THEN WAdd(n, k)
        ELSE IF WLess(k, n) THEN WSub(n, k)
        ELSE WSub(k, n)

\* UlpsBetween without `case n > k`
UlpsBetween_NoSwap(a, b) ==
    LET signdiff == ~WLess(WXor(a, b), signbit)
        k == WAndNot(a, signbit)
        n == WAndNot(b, signbit)
    IN  IF WLess(posInf, k) \/ WLess(posInf, n) THEN maxUint64
        ELSE IF signdiff THEN WAdd(n, k)
        ELSE WSub(k, n)

\* UlpsBetween with `signdiff := k ^ n > signbit`
UlpsBetween_StrictSignDiff(a, b) ==
    LET signdiff == WLess(signbit, WXor(a, b))
        k == WAndNot(a, signbit)
        n == WAndNot(b, signbit)
    IN  IF WLess(posInf, k) \/ WLess(posInf, n) THEN maxUint64
        ELSE IF signdiff THEN WAdd(n, k)
        ELSE IF WLess(k, n) THEN WSub(n, k)
        ELSE WSub(k, n)
\* UlpsBetween without the `case signdiff`
UlpsBetween_MagnitudesOnly(a, b) ==
    LET k == WAndNot(a, signbit)
        n == WAndNot(b, signbit)
    IN  IF WLess(posInf, k) \/ WLess(posInf, n) THEN maxUint64
        ELSE IF WLess(k, n) THEN WSub(n, k)
        ELSE WSub(k, n)

UlpsBetween(a, b) ==
    LET signdiff == ~WLess(WXor(a, b), signbit)
        k == WAndNot(a, signbit)
        n == WAndNot(b, signbit)
    IN  IF WLess(posInf, k) \/ WLess(posInf, n) THEN maxUint64
        ELSE IF signdiff THEN WAdd(n, k)
        ELSE IF WLess(k, n) THEN WSub(n, k)
        ELSE WSub(k, n)

\* Adjacent with `return d == 1`
Adjacent_OnlyPlusOne(a, b) ==
    LET d == Int64(WSub(a, b))
    IN  ~d.neg /\ d.abs = One

Adjacent(a, b) ==
    LET d == Int64(WSub(a, b))
    IN  (~d.neg /\ d.abs = One) \/ (d.neg /\ d.abs = One)

Ulp_EarlyExponentCase(a) ==
    LET u == WAndNot(a, signbit)
        exp == WShr(u, 52)
    IN  IF exp = W(0, 0, 0, \H7ff) THEN u
        ELSE IF WLess(W(0, 0, 0, 51), exp) THEN WShl(WSub(exp, W(0, 0, 0, 52)), 52)
        ELSE IF WLess(One, exp) THEN WShl(One, exp[1] - 1)
        ELSE One

Ulp(a) ==
    LET u == WAndNot(a, signbit)
        exp == WShr(u, 52)
    IN  IF exp = W(0, 0, 0, \H7ff) THEN u
        ELSE IF WLess(W(0, 0, 0, 52), exp) THEN WShl(WSub(exp, W(0, 0, 0, 52)), 52)
        ELSE IF WLess(One, exp) THEN WShl(One, exp[1] - 1)
        ELSE One

\* The constant 1 - 0x1p-53, converted to float64
OneMinusEps ==
    Round(0, NSub(NShl(<<1>>, 53), <<1>>), -53)

\* The constant 0x1.25p-53, converted to float64
C125 ==
    Round(0, NatOf(\H125), -61)
\* The constant 1 - 0x1p-52, converted to float64
OneMinusTwoEps ==
    Round(0, NSub(NShl(<<1>>, 52), <<1>>), -52)

NextToZeroFP_TwoEps(a, hw) ==
    FMul(a, OneMinusTwoEps, hw.nan)

NextToZeroFP(a, hw) ==
    FMul(a, OneMinusEps, hw.nan)

\* NextToZero returning the floating-point probe's result alone
NextToZero_NoBitBranch(a, hw) ==
    NextToZeroFP(a, hw)

\* NextToZero without `|| x == 0`
NextToZero_NoZeroCheck(a, hw) ==
    LET r == NextToZeroFP(a, hw)
    IN  IF FNe(r, a) THEN r
        ELSE IF ~WLess(WAndNot(a, signbit), posInf) THEN a
        ELSE WSub(a, One)

NextToZero(a, hw) ==
    LET r == NextToZeroFP(a, hw)
    IN  IF FNe(r, a) THEN r
        ELSE IF ~WLess(WAndNot(a, signbit), posInf) \/ FEq(a, Zero) THEN a
        ELSE WSub(a, One)

NextFromZeroFP(a, hw) ==
    IF hw.fma THEN FMA(a, C125, a, hw.nan)
    ELSE FAdd(a, FMul(a, C125, hw.nan), hw.nan)

\* NextFromZero without the test for Inf
NextFromZero_NoInfCheck(a, hw) ==
    LET r == NextFromZeroFP(a, hw)
    IN  IF FNe(a, r) THEN r
        ELSE WAdd(a, One)
\* NextFromZero stepping two patterns in its bit-only branch
NextFromZero_BitStepTwo(a, hw) ==
    LET r == NextFromZeroFP(a, hw)
    IN  IF FNe(a, r) THEN r
        ELSE IF ~WLess(WAndNot(a, signbit), posInf) THEN a
        ELSE WAdd(a, W(0, 0, 0, 2))

NextFromZero(a, hw) ==
    LET r == NextFromZeroFP(a, hw)
    IN  IF FNe(a, r) THEN r
        ELSE IF ~WLess(WAndNot(a, signbit), posInf) THEN a
        ELSE WAdd(a, One)

\* A uint64 below 2^31 as an integer (Go's int(...) of a small value)
IntOf(w) ==
    w[1] + Base * w[2]

LogUlp_NoSubnormalCase(a) ==
    LET exp == IntOf(WShr(WAndNot(a, signbit), 52))
    IN  IF exp = 2047 THEN 1024
        ELSE exp - (1023 + 52)

LogUlp(a) ==
    LET exp == IntOf(WShr(WAndNot(a, signbit), 52))
    IN  IF exp = 2047 THEN 1024
        ELSE IF exp > 0 THEN exp - (1023 + 52)
        ELSE -1074

\* bits.Len64(u): the number of bits needed to write u
Len64(u) ==
    NBitLen(ToNat(u))

Log2_NoSubnormalCase(a) ==
    LET u == WAndNot(a, signbit)
        exp == IntOf(WShr(u, 52))
    IN  exp - 1023

Log2(a) ==
    LET u == WAndNot(a, signbit)
        exp == IntOf(WShr(u, 52))
    IN  IF exp = 0 THEN Len64(u) - 1075
        ELSE exp - 1023

IsPowerOfTwo_NoExponentLimit(a) ==
    LET s == WShl(a, 12)
        e == WShr(a, 52)
    IN  IF WLess(Zero, WAnd(s, WSub(s, One))) THEN FALSE
        ELSE WLess(Zero, s) # WLess(Zero, e)

IsPowerOfTwo(a) ==
    LET s == WShl(a, 12)
        e == WShr(a, 52)
    IN  IF WLess(Zero, WAnd(s, WSub(s, One))) THEN FALSE
        ELSE (WLess(Zero, s) # WLess(Zero, e)) /\ WLess(e, W(0, 0, 0, \H7ff))

IsPowerOfTwoMinimal(a) ==
    LET e == WShr(a, 52)
        s == WShl(a, 12)
    IN  /\ WAnd(s, WSub(s, One)) = Zero
        /\ WLess(Zero, s) # WLess(Zero, e)
        /\ WLess(e, W(0, 0, 0, \H7ff))

\* uint64 |
WOr(a, b) ==
    WXor(WXor(a, b), WAnd(a, b))

\* IsPowerOfTwoJava without `bits |= 1<<52`
IsPowerOfTwoJava_NoImplicitBit(a) ==
    LET exp == WShr(a, 52)
        bits == WAnd(a, WSub(WShl(One, 53), One))
    IN  /\ WAnd(bits, WSub(bits, One)) = Zero
        /\ WLess(Zero, bits)
        /\ WLess(exp, W(0, 0, 0, \H7ff))

IsPowerOfTwoJava(a) ==
    LET exp == WShr(a, 52)
        masked == WAnd(a, WSub(WShl(One, 53), One))
        bits == IF WLess(Zero, exp) THEN WOr(masked, WShl(One, 52)) ELSE masked
    IN  /\ WAnd(bits, WSub(bits, One)) = Zero
        /\ WLess(Zero, bits)
        /\ WLess(exp, W(0, 0, 0, \H7ff))

IsInf(a) ==
    WAndNot(a, signbit) = posInf

IsFinite_Inclusive(a) ==
    ~WLess(posInf, WAndNot(a, signbit))

IsFinite(a) ==
    WLess(WAndNot(a, signbit), posInf)

IsNaN(a) ==
    FNe(a, a)

\* a <= b on float64 values
FLe(a, b) ==
    /\ ~FIsNaN(a)
    /\ ~FIsNaN(b)
    /\ \/ FIsZero(a) /\ FIsZero(b)
       \/ SignOf(a) = 1 /\ SignOf(b) = 0
       \/ SignOf(a) = 0 /\ SignOf(b) = 0 /\ ~WLess(MagOf(b), MagOf(a))
       \/ SignOf(a) = 1 /\ SignOf(b) = 1 /\ ~WLess(MagOf(a), MagOf(b))

\* a / 2
FDiv2(a, mode) ==
    IF FIsNaN(a) THEN NaNOf(a, a, mode)
    ELSE IF FIsInf(a) THEN a
    ELSE Round(SignOf(a), SigOf(a), Exp2Of(a) - 1)

\* The constants 0.5 (x/2 is compiled as x * 0.5) and math.MaxFloat64
Half == W(\H3fe0, 0, 0, 0)

maxFloat64 == W(\H7fef, \Hffff, \Hffff, \Hffff)

\* x/2 + y/2 has two products; a build that fuses takes one of them into
\* the addition.
Fusings == {"none", "left", "right"}

\* mean := x/2 + y/2
MeanOf(a, b, fuse) ==
    IF fuse = "left" THEN FMA(a, Half, FDiv2(b, "quiet"), "quiet")
    ELSE IF fuse = "right" THEN FMA(b, Half, FDiv2(a, "quiet"), "quiet")
    ELSE FAdd(FDiv2(a, "quiet"), FDiv2(b, "quiet"), "quiet")

AdjacentFP_SumThenHalve(a, b, fuse) ==
    IF FEq(a, b) THEN FALSE
    ELSE LET mean == FDiv2(FAdd(a, b, "quiet"), "quiet")
         IN  IF FNe(mean, a) /\ FNe(mean, b) THEN FALSE
             ELSE FLe(WithSign(1, maxFloat64), mean) /\ FLe(mean, maxFloat64)

AdjacentFP(a, b, fuse) ==
    IF FEq(a, b) THEN FALSE
    ELSE LET mean == MeanOf(a, b, fuse)
         IN  IF FNe(mean, a) /\ FNe(mean, b) THEN FALSE
             ELSE FLe(WithSign(1, maxFloat64), mean) /\ FLe(mean, maxFloat64)

\* The bit-only branches of NextToZero and NextFromZero
NextToZeroBits(a) ==
    IF ~WLess(WAndNot(a, signbit), posInf) \/ FEq(a, Zero) THEN a
    ELSE WSub(a, One)

NextFromZeroBits(a) ==
    IF ~WLess(WAndNot(a, signbit), posInf) THEN a
    ELSE WAdd(a, One)

\* splitmix: the state after the call, and the value returned from it
Gamma == W(\H9e37, \H79b9, \H7f4a, \H7c15)

Mul1 == W(\Hbf58, \H476d, \H1ce4, \He5b9)

Mul2 == W(\H94d0, \H49bb, \H1331, \H11eb)

\* Byte k of a word, k = 0 for the lowest
ByteOf(w, k) ==
    (w[(k \div 2) + 1] \div (IF k % 2 = 0 THEN 1 ELSE 256)) % 256

RECURSIVE ColumnFrom(_, _, _, _)

\* The byte products of weight 256^k, from byte i of a on
ColumnFrom(a, b, k, i) ==
    IF i > k THEN 0
    ELSE ByteOf(a, i) * ByteOf(b, k - i) + ColumnFrom(a, b, k, i + 1)

RECURSIVE CarriedColumn(_, _, _)

\* Column k with the carry of the columns below it
CarriedColumn(a, b, k) ==
    ColumnFrom(a, b, k, 0) + (IF k = 0 THEN 0 ELSE CarriedColumn(a, b, k - 1) \div 256)

ProductLimb(a, b, j) ==
    (CarriedColumn(a, b, 2 * j) % 256) + 256 * (CarriedColumn(a, b, 2 * j + 1) % 256)

\* uint64 a * b: the low eight bytes of the product
WMul(a, b) ==
    CHOOSE r \in {<<ProductLimb(p[1], p[2], 0), ProductLimb(p[1], p[2], 1),
                    ProductLimb(p[1], p[2], 2), ProductLimb(p[1], p[2], 3)>> : p \in {<<a, b>>}} : TRUE

\* splitmix without `*state += 0x9e3779b97f4a7c15`
SplitmixState_NoAdvance(st) ==
    st

SplitmixState(st) ==
    WAdd(st, Gamma)

\* z ^ (z >> s)
XorShift(z, s) ==
    CHOOSE r \in {WXor(z, t) : t \in {WShr(z, s)}} : TRUE

\* z = (z ^ (z >> 30)) * 0xbf58476d1ce4e5b9
Mix30(z0) ==
    WMul(XorShift(z0, 30), Mul1)

\* z = (z ^ (z >> 27)) * 0x94d049bb133111eb
Mix27(z1) ==
    WMul(XorShift(z1, 27), Mul2)

\* z ^ (z >> 31)
Mix31(z2) ==
    XorShift(z2, 31)

\* Each line of splitmix is worked out once, from the z of the line before.
SplitmixOut(st) ==
    CHOOSE r \in {Mix31(z2) : z2 \in {Mix27(z1) : z1 \in {Mix30(z0) : z0 \in {SplitmixState(st)}}}} : TRUE

\* 0x7ff << 52
ExpMask ==
    WShl(W(0, 0, 0, \H7ff), 52)

ExpAllOnes_InfOnly(w) ==
    WAndNot(w, signbit) = ExpMask

\* u & (0x7ff << 52) == 0x7ff << 52
ExpAllOnes(w) ==
    WAnd(w, ExpMask) = ExpMask

\* ------------------------------------------------------------------------
\* Inputs: bit patterns around the boundaries of the format.
\* ------------------------------------------------------------------------

\* How far around each boundary pattern the inputs reach.
Delta == 2

\* How many neighbour steps a walk takes.
MaxSteps == 2

MaxMag == W(\H7fff, \Hffff, \Hffff, \Hffff)

\* The magnitudes within Delta of m, kept inside 0..MaxMag
Around(m) ==
    {WAdd(m, W(0, 0, 0, d)) : d \in {d \in 0..Delta : ~WLess(WSub(MaxMag, m), W(0, 0, 0, d))}}
    \cup {WSub(m, W(0, 0, 0, d)) : d \in {d \in 0..Delta : ~WLess(m, W(0, 0, 0, d))}}

Boundaries ==
    { Zero,                                   \* 0, smallest subnormals
      W(\H0008, 0, 0, 0),                     \* a subnormal, 2^-1023
      W(\H000d, \Hfb7d, \H5c2e, \H1a77),      \* a subnormal, 0.874.. * 2^-1022
      W(\H0010, 0, 0, 0),                     \* 2^-1022, largest subnormal below
      W(\H0020, 0, 0, 0),                     \* 2^-1021
      W(\H0024, \Hf8cb, \H3a21, \H9e05),
      W(\H0030, 0, 0, 0),                     \* 2^-1020
      W(\H0040, 0, 0, 0),                     \* 2^-1019
      W(\H0340, 0, 0, 0),                     \* exponent field 52
      W(\H0350, 0, 0, 0),                     \* exponent field 53
      W(\H3fd5, \H5555, \H5555, \H5555),      \* 1/3
      W(\H3ff0, 0, 0, 0),                     \* 1
      W(\H4009, \H21fb, \H5444, \H2d18),      \* pi
      W(\H4340, 0, 0, 0),                     \* 2^53
      W(\H7fe0, 0, 0, 0),                     \* 2^1023
      posInf,                                 \* Inf, MaxFloat64 below, NaN above
      DefaultNaN,                             \* the quiet NaNs
      MaxMag }                                \* the last NaN

PairBoundaries ==
    { Zero,
      W(\H0010, 0, 0, 0),
      W(\H3ff0, 0, 0, 0),
      W(\H4009, \H21fb, \H5444, \H2d18),
      posInf,
      DefaultNaN,
      MaxMag }

Inputs ==
    {WithSign(s, m) : s \in {0, 1}, m \in UNION {Around(l) : l \in Boundaries}}

PairInputs ==
    {WithSign(s, m) : s \in {0, 1}, m \in UNION {Around(l) : l \in PairBoundaries}}

\* Every exponent field with a zero significand, and every subnormal with
\* one significand bit: the only magnitudes IsPowerOfTwo's first test lets by.
OneBitMagnitudes ==
    {WShl(W(0, 0, 0, e), 52) : e \in 0..2047} \cup {WShl(One, k) : k \in 0..51}

UnaryInputs ==
    Inputs \cup {WithSign(s, m) : s \in {0, 1}, m \in OneBitMagnitudes}

TripleMagnitudes ==
    { Zero,                                   \* 0
      One,                                    \* 2^-1074
      W(\H3ff0, 0, 0, 0),                     \* 1
      W(\H4340, 0, 0, 1),                     \* 2^53 + 2
      maxFloat64,
      posInf }

TripleInputs ==
    {WithSign(s, m) : s \in {0, 1}, m \in TripleMagnitudes}

\* How many times the caller calls RandomFloat64.
MaxCalls == 3

\* How many splitmix calls one RandomFloat64 call may make.
MaxDraws == 4

\* State words the caller starts from
Seeds ==
    {
      W(\H0000, \H0000, \H0000, \H0000),   \* 0
      W(\H0000, \H0000, \H0000, \H0001),   \* 1
      W(\H08ae, \H187a, \Hc49e, \H43ea),   \* the word whose own mix is +Inf
      W(\Hcf9a, \H04af, \Hfa6b, \Hadc0),   \* the word whose own mix is all ones
      W(\Hffff, \Hffff, \Hffff, \Hffff),   \* 2^64 - 1
      W(\H6a76, \H9ec1, \H4553, \Hc7d5),   \* first output +Inf
      W(\Hef73, \Hc837, \H780f, \H7935),   \* first output -Inf
      W(\H05f4, \Hcb6e, \H40d9, \Hdf4d),   \* first output a quiet NaN
      W(\H3162, \H8af6, \H7b21, \H31ab),   \* first output all ones
      W(\H0edc, \H9fd6, \H32be, \H1a38),   \* first output a signalling NaN
      W(\H6ad9, \H94f6, \Ha077, \H8a92),   \* first two outputs Inf or NaN
      W(\H010e, \H1e57, \Hbc60, \H2932),   \* first two outputs Inf or NaN
      W(\Hcc3f, \H2507, \Hc609, \H4bc0),   \* second output +Inf
      W(\Hb0f6, \H2200, \Hf2b3, \H60ed),   \* first output MaxFloat64
      W(\H140b, \Ha363, \Hf97c, \He7a0),   \* first output -2^1023
      W(\H750f, \H3124, \Hf205, \Hf4bf),   \* first output a subnormal, significand all ones
      W(\H211e, \Hc2d6, \Hda98, \H31e7),   \* first output finite, significand begins 0x7ff
      W(\H61c8, \H8646, \H80b5, \H83eb)    \* first output +0
    }

\* ------------------------------------------------------------------------
\* The state machine: a caller holding two float64 values applies the
\* package's functions to them.
\* ------------------------------------------------------------------------

VARIABLES
    x,      \* the first operand; never changed
    y,      \* the second operand; the neighbour functions replace it
    trail,  \* the functions applied to y so far, in order
    ulps,   \* the result of UlpsBetween(x, y), once called
    adj,    \* the result of Adjacent(x, y), once called
    seen,   \* which of ulps and adj hold a result
    z,      \* a third operand; never changed
    res,    \* the last result of a one-argument function or of AdjacentFP
    dist,   \* the distances taken so far between two of x, y, z
    state,  \* the caller's generator state word
    seed,   \* the state word when RandomFloat64 was entered
    draws,  \* the splitmix calls made since RandomFloat64 was entered
    u,      \* the last splitmix output
    pc,     \* where RandomFloat64 stands: "again", "test" or "done"
    calls   \* the RandomFloat64 calls made so far

walk == <<x, y, trail, ulps, adj, seen>>

extra == <<z, res, dist>>

rng == <<state, seed, draws, u, pc, calls>>

vars == <<x, y, trail, ulps, adj, seen, z, res, dist, state, seed, draws, u, pc, calls>>

\* y := NextToZero(y)
DoNextToZero ==
    /\ seen = {}
    /\ res.fn = "none"
    /\ Len(trail) < MaxSteps
    /\ \E hw \in Platforms : y' = NextToZero(y, hw)
    /\ trail' = Append(trail, "NextToZero")
    /\ UNCHANGED <<x, ulps, adj, seen, extra, rng>>

\* y := NextFromZero(y)
DoNextFromZero ==
    /\ seen = {}
    /\ res.fn = "none"
    /\ Len(trail) < MaxSteps
    /\ \E hw \in Platforms : y' = NextFromZero(y, hw)
    /\ trail' = Append(trail, "NextFromZero")
    /\ UNCHANGED <<x, ulps, adj, seen, extra, rng>>

\* y := y + Ulp(y)
DoAddUlp ==
    /\ seen = {}
    /\ res.fn = "none"
    /\ Len(trail) < MaxSteps
    /\ \E hw \in Platforms : y' = FAdd(y, Ulp(y), hw.nan)
    /\ trail' = Append(trail, "AddUlp")
    /\ UNCHANGED <<x, ulps, adj, seen, extra, rng>>

\* ulps := UlpsBetween(x, y)
DoUlpsBetween ==
    /\ "ulps" \notin seen
    /\ ulps' = UlpsBetween(x, y)
    /\ seen' = seen \cup {"ulps"}
    /\ UNCHANGED <<x, y, trail, adj, extra, rng>>

\* adj := Adjacent(x, y)
DoAdjacent ==
    /\ "adj" \notin seen
    /\ adj' = Adjacent(x, y)
    /\ seen' = seen \cup {"adj"}
    /\ UNCHANGED <<x, y, trail, ulps, extra, rng>>

\* res := AdjacentFP(x, y)
DoAdjacentFP ==
    /\ res.fn = "none"
    /\ \E fuse \in Fusings : res' = [fn |-> "AdjacentFP", val |-> AdjacentFP(x, y, fuse)]
    /\ UNCHANGED <<walk, z, dist, rng>>

\* The one-argument functions, each applied to x.
DoUlp ==
    /\ res.fn = "none"
    /\ res' = [fn |-> "Ulp", val |-> Ulp(x)]
    /\ UNCHANGED <<walk, z, dist, rng>>

DoLogUlp ==
    /\ res.fn = "none"
    /\ res' = [fn |-> "LogUlp", val |-> LogUlp(x)]
    /\ UNCHANGED <<walk, z, dist, rng>>

DoLog2 ==
    /\ res.fn = "none"
    /\ res' = [fn |-> "Log2", val |-> Log2(x)]
    /\ UNCHANGED <<walk, z, dist, rng>>

DoIsPowerOfTwo ==
    /\ res.fn = "none"
    /\ res' = [fn |-> "IsPowerOfTwo", val |-> IsPowerOfTwo(x)]
    /\ UNCHANGED <<walk, z, dist, rng>>

DoIsPowerOfTwoMinimal ==
    /\ res.fn = "none"
    /\ res' = [fn |-> "IsPowerOfTwoMinimal", val |-> IsPowerOfTwoMinimal(x)]
    /\ UNCHANGED <<walk, z, dist, rng>>

DoIsPowerOfTwoJava ==
    /\ res.fn = "none"
    /\ res' = [fn |-> "IsPowerOfTwoJava", val |-> IsPowerOfTwoJava(x)]
    /\ UNCHANGED <<walk, z, dist, rng>>

DoIsInf ==
    /\ res.fn = "none"
    /\ res' = [fn |-> "IsInf", val |-> IsInf(x)]
    /\ UNCHANGED <<walk, z, dist, rng>>

DoIsFinite ==
    /\ res.fn = "none"
    /\ res' = [fn |-> "IsFinite", val |-> IsFinite(x)]
    /\ UNCHANGED <<walk, z, dist, rng>>

DoIsNaN ==
    /\ res.fn = "none"
    /\ res' = [fn |-> "IsNaN", val |-> IsNaN(x)]
    /\ UNCHANGED <<walk, z, dist, rng>>

DoNextToZeroFP ==
    /\ res.fn = "none"
    /\ \E hw \in Platforms : res' = [fn |-> "NextToZeroFP", val |-> NextToZeroFP(x, hw)]
    /\ UNCHANGED <<walk, z, dist, rng>>

DoNextFromZeroFP ==
    /\ res.fn = "none"
    /\ \E hw \in Platforms : res' = [fn |-> "NextFromZeroFP", val |-> NextFromZeroFP(x, hw)]
    /\ UNCHANGED <<walk, z, dist, rng>>

\* The operands a distance is taken between
Operand(k) ==
    IF k = "x" THEN x ELSE IF k = "y" THEN y ELSE z

Sides == {<<"x", "y">>, <<"y", "z">>, <<"x", "z">>}

\* dist[p] := UlpsBetween(p[1], p[2])
DoDistance ==
    \E p \in Sides :
        /\ p \notin DOMAIN dist
        /\ dist' = [q \in DOMAIN dist \cup {p} |->
                        IF q = p THEN UlpsBetween(Operand(p[1]), Operand(p[2])) ELSE dist[q]]
        /\ UNCHANGED <<walk, z, res, rng>>

\* RandomFloat64: u := splitmix(state), which advances *state
Draw ==
    /\ pc = "again"
    /\ draws < MaxDraws
    /\ state' = SplitmixState(state)
    /\ u' = SplitmixOut(state)
    /\ draws' = draws + 1
    /\ pc' = "test"
    /\ UNCHANGED <<walk, extra, seed, calls>>

\* RandomFloat64: the exponent field of u is all ones, goto again
Resample ==
    /\ pc = "test"
    /\ ExpAllOnes(u)
    /\ pc' = "again"
    /\ UNCHANGED <<walk, extra, state, seed, draws, u, calls>>

\* RandomFloat64: return math.Float64frombits(u)
Return ==
    /\ pc = "test"
    /\ ~ExpAllOnes(u)
    /\ pc' = "done"
    /\ UNCHANGED <<walk, extra, state, seed, draws, u, calls>>

\* The caller calls RandomFloat64 again with the same state word.
CallAgain ==
    /\ pc = "done"
    /\ calls < MaxCalls
    /\ calls' = calls + 1
    /\ seed' = state
    /\ draws' = 0
    /\ pc' = "again"
    /\ UNCHANGED <<walk, extra, state, u>>

\* What the variables of the other callers hold while one of them runs
NoWalk ==
    /\ trail = <<>>
    /\ ulps = Zero
    /\ adj = FALSE
    /\ seen = {}

NoExtra ==
    /\ z = Zero
    /\ res = [fn |-> "none", val |-> Zero]
    /\ dist = <<>>

NoRng ==
    /\ state = Zero
    /\ seed = Zero
    /\ draws = 0
    /\ u = Zero
    /\ pc = "done"
    /\ calls = 0

\* One value, walked to its neighbours and compared with where it started.
Init ==
    /\ x \in Inputs
    /\ y = x
    /\ NoWalk
    /\ NoExtra
    /\ NoRng

Next ==
    \/ DoNextToZero
    \/ DoNextFromZero
    \/ DoAddUlp
    \/ DoUlpsBetween
    \/ DoAdjacent

Spec == Init /\ [][Next]_vars

\* Two independent values, compared.
InitPair ==
    /\ x \in PairInputs
    /\ y \in PairInputs
    /\ NoWalk
    /\ NoExtra
    /\ NoRng

NextPair ==
    \/ DoUlpsBetween
    \/ DoAdjacent

SpecPair == InitPair /\ [][NextPair]_vars

\* Two independent values, compared by arithmetic and by distance.
NextPairFP ==
    \/ DoUlpsBetween
    \/ DoAdjacentFP

SpecPairFP == InitPair /\ [][NextPairFP]_vars

\* One value, handed to one of the bit-only functions.
InitUnary ==
    /\ x \in UnaryInputs
    /\ y = x
    /\ NoWalk
    /\ NoExtra
    /\ NoRng

NextUnary ==
    \/ DoUlp
    \/ DoLogUlp
    \/ DoLog2
    \/ DoIsPowerOfTwo
    \/ DoIsPowerOfTwoMinimal
    \/ DoIsPowerOfTwoJava
    \/ DoIsInf
    \/ DoIsFinite
    \/ DoIsNaN

SpecUnary == InitUnary /\ [][NextUnary]_vars

\* One value, handed to the floating-point probes and to the functions
\* that try them first.
InitProbe ==
    /\ x \in Inputs
    /\ y = x
    /\ NoWalk
    /\ NoExtra
    /\ NoRng

NextProbe ==
    \/ DoNextToZeroFP
    \/ DoNextFromZeroFP
    \/ DoNextToZero
    \/ DoNextFromZero

SpecProbe == InitProbe /\ [][NextProbe]_vars

\* Three independent values and the distances between them.
InitTriple ==
    /\ x \in TripleInputs
    /\ y \in TripleInputs
    /\ z \in TripleInputs
    /\ NoWalk
    /\ res = [fn |-> "none", val |-> Zero]
    /\ dist = <<>>
    /\ NoRng

NextTriple ==
    DoDistance

SpecTriple == InitTriple /\ [][NextTriple]_vars

\* A caller drawing floats from one state word.
InitRandom ==
    /\ x = Zero
    /\ y = Zero
    /\ NoWalk
    /\ NoExtra
    /\ state \in Seeds
    /\ seed = state
    /\ draws = 0
    /\ u = Zero
    /\ pc = "again"
    /\ calls = 1

NextRandom ==
    \/ Draw
    \/ Resample
    \/ Return
    \/ CallAgain

SpecRandom == InitRandom /\ [][NextRandom]_vars

\* The same caller, with RandomFloat64 running on once it has been entered:
\* a step of its body that can be taken is taken.
FairRandom ==
    /\ WF_vars(Draw)
    /\ WF_vars(Resample)
    /\ WF_vars(Return)

SpecRandomLive == InitRandom /\ [][NextRandom]_vars /\ FairRandom

TypeOK ==
    /\ Len(x) = 4
    /\ Len(y) = 4
    /\ Len(z) = 4
    /\ Len(trail) <= MaxSteps
    /\ seen \subseteq {"ulps", "adj"}
    /\ DOMAIN dist \subseteq Sides
    /\ pc \in {"again", "test", "done"}
    /\ calls \in 0..MaxCalls
    /\ draws \in 0..MaxDraws

\* ------------------------------------------------------------------------
\* Properties.
\* ------------------------------------------------------------------------

MaxFloat64 == W(\H7fef, \Hffff, \Hffff, \Hffff)

MinSubnormal == One

NegZero == WithSign(1, Zero)

NonNaN(a) == ~FIsNaN(a)

Finite(a) == WLess(MagOf(a), posInf)

FiniteNonzero(a) == Finite(a) /\ ~FIsZero(a)

\* |p(a) - p(b)| as an exact natural number, where p is +magnitude for a
\* clear sign bit and -magnitude for a set one.
SignMagDistance(a, b) ==
    LET ma == ToNat(MagOf(a))
        mb == ToNat(MagOf(b))
    IN  IF SignOf(a) # SignOf(b) THEN NAdd(ma, mb)
        ELSE IF NCmp(ma, mb) >= 0 THEN NSub(ma, mb)
        ELSE NSub(mb, ma)

\* C1: for non-NaN x and y, UlpsBetween(x, y) is the exact (non-wrapping)
\* distance |p(x) - p(y)| along the sign-magnitude order: the difference of
\* the magnitudes for equal signs, their sum for opposite signs, and 0 for
\* the two zeros.
C1_UlpsBetweenIsSignMagDistance ==
    ("ulps" \in seen /\ NonNaN(x) /\ NonNaN(y)) =>
        /\ ToNat(ulps) = SignMagDistance(x, y)
        /\ ({x, y} = {Zero, NegZero} => ulps = Zero)

C1_Witness ==
    /\ "ulps" \in seen
    /\ x = WithSign(1, MaxFloat64)
    /\ y = posInf
    /\ ulps = W(\Hffdf, \Hffff, \Hffff, \Hffff)

\* The two pairs at the signed-zero boundary that are one step apart across
\* the sign change.
ZeroBoundaryPair(a, b) ==
    \/ {a, b} = {Zero, WithSign(1, MinSubnormal)}
    \/ {a, b} = {NegZero, MinSubnormal}

\* C2: for non-NaN x and y, Adjacent(x, y) = (UlpsBetween(x, y) = 1), except
\* that for the pairs {+0, -2^-1074} and {-0, +2^-1074} (in either order)
\* UlpsBetween is 1 and Adjacent is false; Adjacent of an infinity and the
\* MaxFloat64 of its sign is true, and Adjacent(-0, +0) is false.
C2_AdjacentIsOneUlp ==
    (seen = {"ulps", "adj"} /\ NonNaN(x) /\ NonNaN(y)) =>
        /\ ZeroBoundaryPair(x, y) => (ulps = One /\ ~adj)
        /\ ~ZeroBoundaryPair(x, y) => (adj <=> ulps = One)
        /\ (\E s \in {0, 1} : {x, y} = {WithSign(s, posInf), WithSign(s, MaxFloat64)}) => adj
        /\ {x, y} = {Zero, NegZero} => ~adj

C2_Witness ==
    /\ seen = {"ulps", "adj"}
    /\ x = Zero
    /\ y = WithSign(1, MinSubnormal)
    /\ ulps = One
    /\ ~adj

\* C3: Adjacent(x, y) is false whenever x or y is NaN, whatever the NaN's
\* payload and sign and whatever the other operand.
C3_AdjacentFalseOnNaN ==
    ("adj" \in seen /\ (FIsNaN(x) \/ FIsNaN(y))) => ~adj

\* C4: for every finite x # 0, with y = x + Ulp(x), Adjacent(x, y) is true
\* and UlpsBetween(x, y) = 1.
C4_AddUlpIsOneStep ==
    (trail = <<"AddUlp">> /\ FiniteNonzero(x) /\ seen = {"ulps", "adj"}) =>
        (adj /\ ulps = One)

\* C5 as stated: for every finite x # 0, MaxFloat64 and -MaxFloat64
\* included, NextToZero(NextFromZero(x)) = x.
C5_RoundTripAllFinite ==
    (trail = <<"NextFromZero", "NextToZero">> /\ FiniteNonzero(x)) => y = x

\* C5 as amended: NextToZero(NextFromZero(x)) = x for every finite x # 0 of
\* magnitude below MaxFloat64; for x = +/-MaxFloat64 the result is the
\* infinity of x's sign.
C5_RoundTripBelowMax ==
    (trail = <<"NextFromZero", "NextToZero">> /\ FiniteNonzero(x)) =>
        IF MagOf(x) = MaxFloat64 THEN y = WithSign(SignOf(x), posInf)
        ELSE y = x

C5_Witness ==
    /\ trail = <<"NextFromZero", "NextToZero">>
    /\ x = WithSign(1, W(\H000f, \Hffff, \Hffff, \Hffff))
    /\ y = x

\* C6: UlpsBetween(x, y) is 2^64 - 1 whenever x or y is NaN (magnitude above
\* 0x7ff0000000000000), whatever the payload, the sign and the other operand.
C6_UlpsBetweenNaNIsMax ==
    ("ulps" \in seen /\ (FIsNaN(x) \/ FIsNaN(y))) => ulps = maxUint64

C6_Witness ==
    /\ "ulps" \in seen
    /\ x = posInf
    /\ y = WithSign(1, W(\H7ff0, 0, 0, 1))
    /\ ulps = maxUint64

\* C7: for non-NaN x and y, UlpsBetween(x, y) = UlpsBetween(y, x), and
\* UlpsBetween(x, x) = 0.
C7_UlpsBetweenSymmetric ==
    ("ulps" \in seen /\ NonNaN(x) /\ NonNaN(y)) =>
        /\ ulps = UlpsBetween(y, x)
        /\ x = y => ulps = Zero

C7_Witness ==
    /\ "ulps" \in seen
    /\ x = W(\H3ff0, 0, 0, 0)
    /\ y = W(\H4009, \H21fb, \H5444, \H2d18)
    /\ ulps = W(\H0019, \H21fb, \H5444, \H2d18)

\* C8 as stated: UlpsBetween(-Inf, +Inf) = 2^64 - 2^53 + 1.
C8_InfToInfPlusOne ==
    ("ulps" \in seen /\ x = WithSign(1, posInf) /\ y = posInf) =>
        ToNat(ulps) = NAdd(NSub(NShl(<<1>>, 64), NShl(<<1>>, 53)), <<1>>)

\* C8 as amended: UlpsBetween(-Inf, +Inf) = 2^64 - 2^53, which is
\* maxUint64 - 2^53 + 1.
C8_InfToInf ==
    ("ulps" \in seen /\ x = WithSign(1, posInf) /\ y = posInf) =>
        /\ ToNat(ulps) = NSub(NShl(<<1>>, 64), NShl(<<1>>, 53))
        /\ ToNat(ulps) = NAdd(NSub(ToNat(maxUint64), NShl(<<1>>, 53)), <<1>>)

C8_Witness ==
    /\ "ulps" \in seen
    /\ x = WithSign(1, posInf)
    /\ y = posInf
    /\ ulps = W(\Hffe0, 0, 0, 0)

\* C9: NextToZero(x) is, for finite x # 0, the pattern with the magnitude
\* decremented by one and the sign kept (so the smallest subnormals go to
\* the zero of their sign); +0, -0, +Inf and -Inf are returned unchanged; a
\* NaN gives a NaN.
C9_NextToZero ==
    (trail = <<"NextToZero">>) =>
        /\ FiniteNonzero(x) => y = WithSign(SignOf(x), WSub(MagOf(x), One))
        /\ (FIsZero(x) \/ FIsInf(x)) => y = x
        /\ FIsNaN(x) => FIsNaN(y)

C9_Witness ==
    /\ trail = <<"NextToZero">>
    /\ x = WithSign(1, MinSubnormal)
    /\ y = NegZero

\* C10: NextFromZero(x) is, for every finite x (the zeros included), the
\* pattern with the magnitude incremented by one and the sign kept (so
\* +/-MaxFloat64 go to +/-Inf and +/-0 to +/-2^-1074); +Inf and -Inf are
\* returned unchanged; a NaN gives a NaN.
C10_NextFromZero ==
    (trail = <<"NextFromZero">>) =>
        /\ Finite(x) => y = WithSign(SignOf(x), WAdd(MagOf(x), One))
        /\ FIsInf(x) => y = x
        /\ FIsNaN(x) => FIsNaN(y)

C10_Witness ==
    /\ trail = <<"NextFromZero">>
    /\ x = WithSign(1, MaxFloat64)
    /\ y = WithSign(1, posInf)

\* The float64 2^n, for n from -1074 to 1023
PowerOfTwoFloat(n) ==
    Round(0, <<1>>, n)

\* |a| in units of 2^-1074, an exact natural number, for finite a
ScaledMag(a) ==
    NShl(SigOf(a), Exp2Of(a) + 1074)

\* The pattern one magnitude step away from zero
AwayNeighbour(a) ==
    WithSign(SignOf(a), WAdd(MagOf(a), One))

\* u is the gap between |a| and its away-from-zero neighbour
IsGapAwayFromZero(a, v) ==
    /\ Finite(AwayNeighbour(a))
    /\ Finite(v)
    /\ NSub(ScaledMag(AwayNeighbour(a)), ScaledMag(a)) = ScaledMag(v)

UlpOfFinite(a, v) ==
    /\ v = PowerOfTwoFloat((IF ExpOf(a) > 1 THEN ExpOf(a) ELSE 1) - 1075)
    /\ SignOf(v) = 0
    /\ IsPowerOfTwo(v)

UlpOfInfNaN(a, v) ==
    v = WithSign(0, MagOf(a))

\* C11 as stated: for every finite x, Ulp(x) = 2^(max(e,1) - 1075), a
\* positive power of two for which IsPowerOfTwo is true, and it is the gap
\* between |x| and its away-from-zero neighbour; for +/-Inf and NaN Ulp(x)
\* is abs(x).
C11_UlpIsGapAllFinite ==
    (res.fn = "Ulp") =>
        /\ Finite(x) => UlpOfFinite(x, res.val) /\ IsGapAwayFromZero(x, res.val)
        /\ ~Finite(x) => UlpOfInfNaN(x, res.val)

\* C11, amended: as above, with the gap to the away-from-zero neighbour
\* claimed only for |x| < MaxFloat64; at +/-MaxFloat64 the neighbour is an
\* infinity and Ulp is 2^971.
C11_UlpIsGapBelowMax ==
    (res.fn = "Ulp") =>
        /\ Finite(x) => UlpOfFinite(x, res.val)
        /\ (Finite(x) /\ MagOf(x) # MaxFloat64) => IsGapAwayFromZero(x, res.val)
        /\ MagOf(x) = MaxFloat64 => res.val = W(\H7ca0, 0, 0, 0)
        /\ ~Finite(x) => UlpOfInfNaN(x, res.val)

C11_Witness ==
    /\ res.fn = "Ulp"
    /\ x = WithSign(1, W(\H0340, 0, 0, 1))
    /\ res.val = W(\H0008, 0, 0, 0)

\* C12: LogUlp agrees with Ulp: for finite x, Ulp(x) is the float64
\* 2^LogUlp(x); for every x, LogUlp(x) = Log2(Ulp(x)); LogUlp is 1024 for
\* +/-Inf and NaN, and -1074 for zero and the subnormals.
C12_LogUlpAgreesWithUlp ==
    (res.fn = "LogUlp") =>
        /\ Finite(x) => Ulp(x) = PowerOfTwoFloat(res.val)
        /\ res.val = Log2(Ulp(x))
        /\ ~Finite(x) => res.val = 1024
        /\ ExpOf(x) = 0 => res.val = -1074

C12_Witness ==
    /\ res.fn = "LogUlp"
    /\ x = WithSign(1, MinSubnormal)
    /\ res.val = -1074
    /\ Ulp(x) = MinSubnormal

\* 2^n <= |a| < 2^(n+1), compared exactly in units of 2^-1074
IsFloorLog2(a, n) ==
    /\ n >= -1074
    /\ NCmp(NShl(<<1>>, n + 1074), ScaledMag(a)) <= 0
    /\ NCmp(ScaledMag(a), NShl(<<1>>, n + 1075)) < 0

\* C13: for finite x # 0 of either sign, normal or subnormal, Log2(x) is
\* the integer n with 2^n <= |x| < 2^(n+1); Log2 of +/-Inf and of NaN is
\* 1024; Log2(-x) = Log2(x).
C13_Log2IsFloorLog2 ==
    (res.fn = "Log2") =>
        /\ FiniteNonzero(x) => IsFloorLog2(x, res.val)
        /\ ~Finite(x) => res.val = 1024
        /\ res.val = Log2(WithSign(1 - SignOf(x), MagOf(x)))

C13_Witness ==
    /\ res.fn = "Log2"
    /\ x = WithSign(1, W(0, 0, 0, 2))
    /\ res.val = -1073

\* The natural number n has exactly one bit set
HasOneBit(n) ==
    n # <<>> /\ n = NShl(<<1>>, NBitLen(n) - 1)

\* Sign clear, and either a normal exponent with a zero significand or a
\* zero exponent with a one-bit significand
PowerPattern(a) ==
    /\ SignOf(a) = 0
    /\ \/ ExpOf(a) \in 1..2046 /\ FracOf(a) = <<>>
       \/ ExpOf(a) = 0 /\ HasOneBit(FracOf(a))

\* The patterns IsPowerOfTwo accepts among the inputs, which hold every
\* pattern with a zero significand and every subnormal with one bit set
AcceptedPatterns ==
    {w \in UnaryInputs : IsPowerOfTwo(w)}

\* C14: IsPowerOfTwo(x) is true exactly when the sign bit is clear and
\* either the exponent field is in 1..2046 with a zero significand or the
\* exponent field is zero with exactly one significand bit set; 2046 + 52
\* patterns are accepted; negative numbers, zeros, infinities and NaNs are
\* rejected.
C14_IsPowerOfTwoPatterns ==
    (res.fn = "IsPowerOfTwo") =>
        /\ res.val = PowerPattern(x)
        /\ (SignOf(x) = 1 \/ FIsZero(x) \/ ~Finite(x)) => res.val = FALSE
        /\ Cardinality(AcceptedPatterns) = 2046 + 52

C14_Witness ==
    /\ res.fn = "IsPowerOfTwo"
    /\ x = W(\H0008, 0, 0, 0)
    /\ res.val = TRUE

\* The state word after k splitmix calls made from the word s
StateAfter(s, k) ==
    WAdd(s, WMul(ToWord(NatOf(k)), Gamma))

\* The output of the k-th splitmix call made from the word s, k >= 1
OutputAt(s, k) ==
    SplitmixOut(StateAfter(s, k - 1))

\* C15: when RandomFloat64 returns, the value is neither Inf nor NaN; it
\* is the first splitmix output, in the sequence drawn from the state word
\* the call was entered with, whose exponent field is not all ones; and the
\* state word has been advanced by 0x9e3779b97f4a7c15 (mod 2^64) once per
\* draw, at least once.
C15_RandomFloat64IsFirstFinite ==
    (pc = "done" /\ calls >= 1) =>
        /\ ~FIsInf(u) /\ ~FIsNaN(u)
        /\ draws >= 1
        /\ state = StateAfter(seed, draws)
        /\ u = OutputAt(seed, draws)
        /\ \A k \in 1..(draws - 1) : ExpOf(OutputAt(seed, k)) = 2047

C15_Witness ==
    /\ pc = "done"
    /\ calls = 1
    /\ seed = W(\H6ad9, \H94f6, \Ha077, \H8a92)
    /\ draws = 3
    /\ state = W(\H4580, \H0223, \H1e56, \Hfed1)
    /\ Finite(u)

\* C16: for finite x and y, AdjacentFP(x, y) is true exactly when
\* UlpsBetween(x, y) = 1, the pairs {+0, -2^-1074} and {-0, +2^-1074}
\* included; it is false when x == y (so for -0 and +0), when an operand is
\* NaN, and when an operand is infinite.
C16_AdjacentFPIsOneUlp ==
    (res.fn = "AdjacentFP") =>
        /\ (Finite(x) /\ Finite(y) /\ "ulps" \in seen) => (res.val = (ulps = One))
        /\ ZeroBoundaryPair(x, y) => res.val
        /\ FEq(x, y) => ~res.val
        /\ (FIsNaN(x) \/ FIsNaN(y)) => ~res.val
        /\ (FIsInf(x) \/ FIsInf(y)) => ~res.val

C16_Witness ==
    /\ res = [fn |-> "AdjacentFP", val |-> TRUE]
    /\ x = NegZero
    /\ y = MinSubnormal
    /\ "ulps" \in seen
    /\ ulps = One

\* The magnitude field compared with 0x7ff0000000000000 as natural numbers:
\* -1 below, 0 equal, 1 above
MagVsInf(a) ==
    NCmp(ToNat(MagOf(a)), ToNat(posInf))

\* C17: for every pattern x exactly one of IsFinite(x), IsInf(x), IsNaN(x)
\* holds; IsFinite iff the magnitude field is below 0x7ff0000000000000,
\* IsInf iff it is equal to it, IsNaN iff it is above.
C17_ClassifiersPartition ==
    /\ res.fn = "IsFinite" =>
        /\ res.val = (MagVsInf(x) < 0)
        /\ res.val = ~(IsInf(x) \/ IsNaN(x))
    /\ res.fn = "IsInf" =>
        /\ res.val = (MagVsInf(x) = 0)
        /\ res.val = ~(IsFinite(x) \/ IsNaN(x))
    /\ res.fn = "IsNaN" =>
        /\ res.val = (MagVsInf(x) > 0)
        /\ res.val = ~(IsFinite(x) \/ IsInf(x))

C17_Witness ==
    /\ res = [fn |-> "IsNaN", val |-> TRUE]
    /\ x = WithSign(1, WAdd(posInf, One))

\* C18: for non-NaN x, a probe result that differs from x is the neighbour
\* itself: NextToZeroFP(x) is then the pattern with the magnitude field
\* less one and the sign kept, NextFromZeroFP(x) the pattern with the
\* magnitude field plus one and the sign kept; so NextToZero and
\* NextFromZero return what their bit-only branch alone returns.
C18_ProbeIsPureOptimisation ==
    NonNaN(x) =>
        /\ (res.fn = "NextToZeroFP" /\ FNe(res.val, x)) =>
                res.val = WithSign(SignOf(x), WSub(MagOf(x), One))
        /\ (res.fn = "NextFromZeroFP" /\ FNe(res.val, x)) =>
                res.val = WithSign(SignOf(x), WAdd(MagOf(x), One))
        /\ trail = <<"NextToZero">> => y = NextToZeroBits(x)
        /\ trail = <<"NextFromZero">> => y = NextFromZeroBits(x)

C18_Witness ==
    /\ x = WithSign(1, W(\H0040, 0, 0, 0))
    /\ res = [fn |-> "NextFromZeroFP", val |-> WithSign(1, W(\H0040, 0, 0, 1))]
    /\ trail = <<"NextFromZero">>
    /\ y = res.val

\* Every step of the walk so far was the function f
WalkOf(f) ==
    \A i \in 1..Len(trail) : trail[i] = f

\* C19: for finite x, after k applications of NextFromZero that did not
\* reach an infinity, or k applications of NextToZero that did not reach a
\* zero, UlpsBetween(x, y) = k and y has the sign of x; applied to an
\* infinity NextFromZero returns it, and applied to a zero NextToZero
\* returns it.
C19_WalkCountsSteps ==
    /\ [](( /\ Finite(x)
            /\ "ulps" \in seen
            /\ \/ WalkOf("NextFromZero") /\ ~FIsInf(y)
               \/ WalkOf("NextToZero") /\ ~FIsZero(y) )
          => (ulps = ToWord(NatOf(Len(trail))) /\ SignOf(y) = SignOf(x)))
    /\ [][(trail' = Append(trail, "NextFromZero") /\ FIsInf(y)) => y' = y]_vars
    /\ [][(trail' = Append(trail, "NextToZero") /\ FIsZero(y)) => y' = y]_vars

C19_Witness ==
    /\ x = WithSign(1, W(\H433f, \Hffff, \Hffff, \Hffff))
    /\ trail = <<"NextFromZero", "NextFromZero">>
    /\ y = WithSign(1, W(\H4340, 0, 0, 1))
    /\ "ulps" \in seen
    /\ ulps = W(0, 0, 0, 2)

\* a is at or below b in the sign-magnitude order, the two zeros at one place
SignMagLe(a, b) ==
    IF SignOf(a) # SignOf(b) THEN SignOf(a) = 1 \/ (FIsZero(a) /\ FIsZero(b))
    ELSE IF SignOf(a) = 0 THEN ~WLess(MagOf(b), MagOf(a))
    ELSE ~WLess(MagOf(a), MagOf(b))

LiesBetween(a, m, b) ==
    \/ SignMagLe(a, m) /\ SignMagLe(m, b)
    \/ SignMagLe(b, m) /\ SignMagLe(m, a)

\* dist[x,y] + dist[y,z] as an exact natural number
DetourLength ==
    NAdd(ToNat(dist[<<"x", "y">>]), ToNat(dist[<<"y", "z">>]))

\* C20: for non-NaN x, y, z, UlpsBetween(x, z) <= UlpsBetween(x, y) +
\* UlpsBetween(y, z), with equality when y lies between x and z in the
\* sign-magnitude order; and a distance of zero is found only between equal
\* patterns or the two zeros.
C20_UlpsBetweenIsLineMetric ==
    /\ (DOMAIN dist = Sides /\ NonNaN(x) /\ NonNaN(y) /\ NonNaN(z)) =>
        /\ NCmp(ToNat(dist[<<"x", "z">>]), DetourLength) <= 0
        /\ LiesBetween(x, y, z) => ToNat(dist[<<"x", "z">>]) = DetourLength
    /\ \A p \in DOMAIN dist :
        (NonNaN(Operand(p[1])) /\ NonNaN(Operand(p[2])) /\ dist[p] = Zero) =>
            \/ Operand(p[1]) = Operand(p[2])
            \/ FIsZero(Operand(p[1])) /\ FIsZero(Operand(p[2]))

C20_Witness ==
    /\ DOMAIN dist = Sides
    /\ x = WithSign(1, posInf)
    /\ y = NegZero
    /\ z = posInf
    /\ dist[<<"x", "z">>] = W(\Hffe0, 0, 0, 0)
    /\ dist[<<"x", "y">>] = posInf
    /\ dist[<<"y", "z">>] = posInf

\* C21: the three bit-based tests agree on every pattern: IsPowerOfTwo(x) =
\* IsPowerOfTwoMinimal(x) = IsPowerOfTwoJava(x).
C21_PowerOfTwoVariantsAgree ==
    /\ res.fn = "IsPowerOfTwoMinimal" => res.val = IsPowerOfTwo(x)
    /\ res.fn = "IsPowerOfTwoJava" => res.val = IsPowerOfTwo(x)
    /\ res.fn = "IsPowerOfTwo" =>
        (res.val = IsPowerOfTwoMinimal(x) /\ res.val = IsPowerOfTwoJava(x))

C21_Witness ==
    /\ res = [fn |-> "IsPowerOfTwoJava", val |-> TRUE]
    /\ x = W(\H0020, 0, 0, 0)
    /\ IsPowerOfTwo(x)
    /\ IsPowerOfTwoMinimal(x)

\* The inverses of the two multipliers of splitmix, mod 2^64
InvMul1 == W(\H96de, \H1b17, \H3f11, \H9089)
InvMul2 == W(\H3196, \H42b2, \Hd24d, \H8ec3)

\* The word w with v = w ^ (w >> s), for 16 <= s < 64
UnXorShift(v, s) ==
    LET r1 == WXor(v, WShr(v, s))
        r2 == WXor(v, WShr(r1, s))
        r3 == WXor(v, WShr(r2, s))
    IN  WXor(v, WShr(r3, s))

\* The state word whose output mix is v
Unmix(v) ==
    UnXorShift(WMul(UnXorShift(WMul(UnXorShift(v, 31), InvMul2), 27), InvMul1), 30)

\* C22: RandomFloat64 terminates: once entered it eventually returns, with
\* a finite value. The reasons given hold too: the constant added to the
\* state is odd, and the output mix loses nothing of the state (each output
\* drawn is mapped back to the state word it was computed from).
C22_RandomFloat64Terminates ==
    /\ [](pc # "done" => <>(pc = "done" /\ Finite(u)))
    /\ [](NOdd(ToNat(Gamma)) /\ WMul(Mul1, InvMul1) = One /\ WMul(Mul2, InvMul2) = One)
    /\ [](pc = "test" => Unmix(u) = state)

C22_Witness ==
    /\ pc = "done"
    /\ calls = 1
    /\ seed = W(\H010e, \H1e57, \Hbc60, \H2932)
    /\ draws = 3
    /\ Finite(u)
====
